---- MODULE Spec2Model ----
(***************************************************************************)
(* Lost-and-found web application (src/app.py): the /report, /search and   *)
(* /chat request handlers over the single items table, with the external   *)
(* completion service as a nondeterministic environment.                   *)
(*                                                                         *)
(* Text is modelled as a sequence of one-character strings, so that        *)
(* strip, split, replace, join and LIKE are computed character by          *)
(* character as Python and SQLite compute them.                            *)
(***************************************************************************)
EXTENDS Integers, Sequences, FiniteSets, TLC

VARIABLES items, pc, form, svc, out

vars == <<items, pc, form, svc, out>>

(***************************************************************************)
(* Bounds of the model.                                                    *)
(***************************************************************************)
\* rows the items table may hold
MaxItems == 2
\* segments a completion text of the parser specification is built from
MaxSegs == 5

(***************************************************************************)
(* Python str helpers.                                                     *)
(***************************************************************************)
Min(S) == CHOOSE x \in S : \A y \in S : x <= y

Max(S) == CHOOSE x \in S : \A y \in S : x >= y

\* the characters str.strip() removes
IsSpace(c) == c \in {" ", "\n", "\t", "\r"}

\* str.strip()
Strip(s) ==
  LET keep == {i \in 1..Len(s) : ~IsSpace(s[i])}
  IN  IF keep = {} THEN <<>> ELSE SubSeq(s, Min(keep), Max(keep))

\* str.split(sep) for a one-character separator: always at least one part
RECURSIVE Split(_, _)
Split(s, sep) ==
  LET at == {i \in 1..Len(s) : s[i] = sep}
  IN  IF at = {} THEN <<s>>
      ELSE <<SubSeq(s, 1, Min(at) - 1)>> \o Split(SubSeq(s, Min(at) + 1, Len(s)), sep)

\* str.replace(old, ""): one left-to-right pass over non-overlapping matches
RECURSIVE Remove(_, _)
Remove(s, old) ==
  IF Len(s) < Len(old) THEN s
  ELSE IF SubSeq(s, 1, Len(old)) = old
       THEN Remove(SubSeq(s, Len(old) + 1, Len(s)), old)
       ELSE <<s[1]>> \o Remove(Tail(s), old)

\* " ".join(parts)
RECURSIVE Join(_)
Join(parts) ==
  IF parts = <<>> THEN <<>>
  ELSE IF Len(parts) = 1 THEN parts[1]
       ELSE parts[1] \o <<" ">> \o Join(Tail(parts))

\* "," in line
HasComma(line) == \E i \in 1..Len(line) : line[i] = ","

(***************************************************************************)
(* Response parser, report() lines 94-109.                                 *)
(***************************************************************************)
DescriptionLabel == <<"D","e","s","c","r","i","p","t","i","o","n",":">>

TagsLabel == <<"T","a","g","s",":">>

AIGenerated == <<"A","I"," ","g","e","n","e","r","a","t","e","d">>

\* the test of line 103 with the threshold off by one
IsTagLineTwoParts(line) == HasComma(line) /\ Len(Split(line, ",")) >= 2

\* the test of line 103 on an already stripped line
IsTagLine(line) == HasComma(line) /\ Len(Split(line, ",")) >= 3

\* lines 95-96
CleanLines(text) ==
  Split(Strip(Remove(Remove(text, DescriptionLabel), TagsLabel)), "\n")

\* the loop of lines 101-106: <<description_lines, tag_line>> after the
\* lines from index i on have been visited
RECURSIVE ParseLoop(_, _, _, _)
ParseLoop(lines, i, description_lines, tag_line) ==
  IF i > Len(lines) THEN <<description_lines, tag_line>>
  ELSE LET line == Strip(lines[i])
       IN  IF IsTagLine(line)
           THEN ParseLoop(lines, i + 1, description_lines, line)
           ELSE ParseLoop(lines, i + 1, Append(description_lines, line), tag_line)

\* lines 95-109 with the tag line also appended to description_lines
ParseKeepsTagLine(text) ==
  LET lines == CleanLines(text)
      r     == ParseLoop(lines, 1, <<>>, <<>>)
  IN  [description |-> Strip(Join([i \in 1..Len(lines) |-> Strip(lines[i])])),
       tags        |-> IF r[2] # <<>> THEN Strip(r[2]) ELSE AIGenerated]

\* lines 96-109 without the label removal of line 95
ParseKeepsLabels(text) ==
  LET r == ParseLoop(Split(Strip(text), "\n"), 1, <<>>, <<>>)
  IN  [description |-> Strip(Join(r[1])),
       tags        |-> IF r[2] # <<>> THEN Strip(r[2]) ELSE AIGenerated]

\* lines 95-109: description and tags of a completion text (already
\* stripped by line 87)
Parse(text) ==
  LET r == ParseLoop(CleanLines(text), 1, <<>>, <<>>)
  IN  [description |-> Strip(Join(r[1])),
       tags        |-> IF r[2] # <<>> THEN Strip(r[2]) ELSE AIGenerated]

(***************************************************************************)
(* SQLite LIKE, as the queries of search() and chat() use it.              *)
(***************************************************************************)
\* LIKE folds the case of ASCII letters
Lower(c) ==
  CASE c = "A" -> "a"
    [] c = "B" -> "b"
    [] c = "I" -> "i"
    [] c = "L" -> "l"
    [] c = "D" -> "d"
    [] c = "T" -> "t"
    [] OTHER   -> c

\* text LIKE pattern: % matches any run of characters, _ any one character
RECURSIVE Like(_, _)
Like(text, pattern) ==
  IF pattern = <<>> THEN text = <<>>
  ELSE IF pattern[1] = "%"
       THEN Like(text, Tail(pattern)) \/ (text # <<>> /\ Like(Tail(text), pattern))
       ELSE /\ text # <<>>
            /\ pattern[1] = "_" \/ Lower(pattern[1]) = Lower(text[1])
            /\ Like(Tail(text), Tail(pattern))

\* f"%{query}%"
Wrap(query) == <<"%">> \o query \o <<"%">>

\* the WHERE clause of lines 156-159 and 179-182
RowMatches(row, query) ==
  \/ Like(row.item_name, Wrap(query))
  \/ Like(row.description, Wrap(query))
  \/ Like(row.tags, Wrap(query))
  \/ Like(row.location, Wrap(query))

(***************************************************************************)
(* Requests and the environment's answers.                                 *)
(***************************************************************************)
\* the worker threads of the development server (app.run, line 218)
Threads == {"t1", "t2"}

\* raw values of the three fields of a POST /report form
ItemNames == {<<>>, <<"a">>, <<" ", "B">>}

KeywordsValues == {<<" ">>, <<"k">>}

Locations == {<<>>, <<"L">>}

Forms == [item_name : ItemNames, keywords : KeywordsValues, location : Locations]

NoForm == [item_name |-> <<>>, keywords |-> <<>>, location |-> <<>>]

\* raw values of the query field of POST /search and the message field of POST /chat
Queries == {<<>>, <<" ">>, <<"b", " ">>, <<"D">>, <<"z">>, <<"%">>, <<"_">>}

Messages == {<<>>, <<"a">>, <<"z">>, <<"%">>}

\* what the completion service may answer: a text, or an exception with a message
ErrorMessages == {<<"4", "0", "1">>}

Failures == [ok : {FALSE}, text : ErrorMessages]

ReportTexts == {<<"d", "\n">>, <<"d", "\n", "x", ",", "y", ",", "z">>, <<"e">>}

ReportOutcomes == [ok : {TRUE}, text : ReportTexts] \cup Failures

ChatOutcomes == [ok : {TRUE}, text : {<<"h", "i">>}] \cup Failures

(***************************************************************************)
(* Responses. body is the literal of the return statement, text the        *)
(* interpolated message or reply, rows the rows handed to the template or  *)
(* listed in the reply; calls is the list of calls the request made to the   *)
(* completion service with their outcomes, reads the number of SELECTs it  *)
(* ran.                                                                    *)
(***************************************************************************)
Response(handler, request, body, text, rows, calls, reads) ==
  [handler |-> handler, request |-> request, body |-> body, text |-> text,
   rows |-> rows, calls |-> calls, reads |-> reads]

NoResponse == Response("none", NoForm, "", <<>>, <<>>, <<>>, 0)

(***************************************************************************)
(* The locals of report() for thread t, lines 56-58, 87, 108-109.          *)
(***************************************************************************)
item_name(t) == Strip(form[t].item_name)

keywords(t) == Strip(form[t].keywords)

location(t) == Strip(form[t].location)

ai_text(t) == Strip(svc[t][1].text)

description(t) == Parse(ai_text(t)).description

tags(t) == Parse(ai_text(t)).tags

\* line 60 without the test of location
FieldsMissingIgnoresLocation(f) ==
  Strip(f.item_name) = <<>> \/ Strip(f.keywords) = <<>>

\* line 60
FieldsMissing(f) ==
  Strip(f.item_name) = <<>> \/ Strip(f.keywords) = <<>> \/ Strip(f.location) = <<>>

\* lines 119-122 with the description compared to the tags column
ExistingRowsWrongColumn(rows, name, loc, desc) ==
  {i \in 1..Len(rows) :
     rows[i].item_name = name /\ rows[i].location = loc /\ rows[i].tags = desc}

\* lines 119-122: the SELECT of the duplicate check
ExistingRows(rows, name, loc, desc) ==
  {i \in 1..Len(rows) :
     rows[i].item_name = name /\ rows[i].location = loc /\ rows[i].description = desc}

\* lines 129-133 as an INSERT OR REPLACE keyed on item_name
InsertOrReplaceRow(rows, name, desc, tgs, loc) ==
  SelectSeq(rows, LAMBDA r : r.item_name # name)
    \o <<[id |-> Len(rows) + 1, item_name |-> name, description |-> desc,
          tags |-> tgs, location |-> loc]>>

\* lines 129-133: the INSERT, with the AUTOINCREMENT id of line 32
InsertRow(rows, name, desc, tgs, loc) ==
  Append(rows, [id |-> Len(rows) + 1, item_name |-> name, description |-> desc,
                tags |-> tgs, location |-> loc])

\* the rows a four-column LIKE query returns, in rowid order
SelectLike(rows, query) == SelectSeq(rows, LAMBDA r : RowMatches(r, query))

\* report requests that may still insert a row
InFlight == {t \in Threads : pc[t] # "idle"}

Finish(t) ==
  /\ pc' = [pc EXCEPT ![t] = "idle"]
  /\ form' = [form EXCEPT ![t] = NoForm]
  /\ svc' = [svc EXCEPT ![t] = <<>>]

(***************************************************************************)
(* Initial state: init_db() has created the empty table, no request runs.  *)
(***************************************************************************)
Init ==
  /\ items = <<>>
  /\ pc = [t \in Threads |-> "idle"]
  /\ form = [t \in Threads |-> NoForm]
  /\ svc = [t \in Threads |-> <<>>]
  /\ out = NoResponse

(***************************************************************************)
(* POST /report.                                                           *)
(***************************************************************************)
\* lines 56-61
ReportValidate(t, f) ==
  /\ pc[t] = "idle"
  /\ IF FieldsMissing(f)
     THEN /\ out' = Response("report", f, "All fields are required.", <<>>, <<>>, <<>>, 0)
          /\ UNCHANGED <<items, pc, form, svc>>
     ELSE /\ Len(items) + Cardinality(InFlight) < MaxItems
          /\ pc' = [pc EXCEPT ![t] = "generate"]
          /\ form' = [form EXCEPT ![t] = f]
          /\ UNCHANGED <<items, svc, out>>

\* lines 89-90 with the exception swallowed and the request carried on
GenerateFailedSwallowed(t, outcome) ==
  /\ svc' = [svc EXCEPT ![t] = <<outcome>>]
  /\ pc' = [pc EXCEPT ![t] = "check"]
  /\ UNCHANGED <<items, form, out>>

\* lines 89-90
GenerateFailed(t, outcome) ==
  /\ out' = Response("report", form[t], "Groq API Error: ", outcome.text, <<>>,
                     <<outcome>>, 0)
  /\ Finish(t)
  /\ UNCHANGED items

\* lines 80-113: the call to the completion service; the parse that follows
\* is a function of the returned text
ReportGenerate(t, outcome) ==
  /\ pc[t] = "generate"
  /\ IF outcome.ok
     THEN /\ svc' = [svc EXCEPT ![t] = <<outcome>>]
          /\ pc' = [pc EXCEPT ![t] = "check"]
          /\ UNCHANGED <<items, form, out>>
     ELSE GenerateFailed(t, outcome)

\* lines 117-126
ReportCheck(t) ==
  /\ pc[t] = "check"
  /\ IF ExistingRows(items, item_name(t), location(t), description(t)) # {}
     THEN /\ out' = Response("report", form[t], "Item already exists in database.",
                             <<>>, <<>>, svc[t], 1)
          /\ Finish(t)
          /\ UNCHANGED items
     ELSE /\ pc' = [pc EXCEPT ![t] = "insert"]
          /\ UNCHANGED <<items, form, svc, out>>

\* lines 128-139 with the duplicate check repeated in the INSERT's transaction
ReportInsertRechecks(t, db_ok, db_error) ==
  /\ pc[t] = "insert"
  /\ IF ExistingRows(items, item_name(t), location(t), description(t)) # {}
     THEN /\ out' = Response("report", form[t], "Item already exists in database.",
                             <<>>, <<>>, svc[t], 2)
          /\ UNCHANGED items
     ELSE /\ items' = InsertRow(items, item_name(t), description(t), tags(t), location(t))
          /\ out' = Response("report", form[t], "redirect /search", <<>>, <<>>, svc[t], 1)
  /\ Finish(t)

\* lines 128-139; db_ok = FALSE is the INSERT or the commit raising
ReportInsert(t, db_ok, db_error) ==
  /\ pc[t] = "insert"
  /\ IF db_ok
     THEN /\ items' = InsertRow(items, item_name(t), description(t), tags(t), location(t))
          /\ out' = Response("report", form[t], "redirect /search", <<>>, <<>>, svc[t], 1)
     ELSE /\ out' = Response("report", form[t], "Database Error: ", db_error, <<>>,
                             svc[t], 1)
          /\ UNCHANGED items
  /\ Finish(t)

(***************************************************************************)
(* POST /search, lines 149-163.                                            *)
(***************************************************************************)
Search(raw) ==
  LET query == Strip(raw)
  IN  /\ out' = IF query # <<>>
                THEN Response("search", raw, "search.html", <<>>,
                              SelectLike(items, query), <<>>, 1)
                ELSE Response("search", raw, "search.html", <<>>, <<>>, <<>>, 0)
      /\ UNCHANGED <<items, pc, form, svc>>

(***************************************************************************)
(* POST /chat, lines 171-210. The reply is the same whether it is returned *)
(* as plain text or rendered in chatbot.html.                              *)
(***************************************************************************)
Chat(raw, outcome) ==
  LET user_message == Strip(raw)
      found        == SelectLike(items, user_message)
  IN  /\ out' = IF user_message = <<>>
                THEN Response("chat", raw, "", <<>>, <<>>, <<>>, 0)
                ELSE IF found # <<>>
                THEN Response("chat", raw, "I found matching items:<br><br>", <<>>,
                              [i \in 1..Len(found) |->
                                 [item_name |-> found[i].item_name,
                                  location |-> found[i].location]],
                              <<>>, 1)
                ELSE IF outcome.ok
                THEN Response("chat", raw, "", outcome.text, <<>>, <<outcome>>, 1)
                ELSE Response("chat", raw, "AI Error: ", outcome.text, <<>>,
                              <<outcome>>, 1)
      /\ UNCHANGED <<items, pc, form, svc>>

(***************************************************************************)
(* The server: requests of any thread interleave at their statements.      *)
(***************************************************************************)
Next ==
  \/ \E t \in Threads, f \in Forms : ReportValidate(t, f)
  \/ \E t \in Threads, o \in ReportOutcomes : ReportGenerate(t, o)
  \/ \E t \in Threads : ReportCheck(t)
  \/ \E t \in Threads, ok \in BOOLEAN, e \in ErrorMessages : ReportInsert(t, ok, e)
  \/ \E q \in Queries : Search(q)
  \/ \E m \in Messages, o \in ChatOutcomes : Chat(m, o)

Spec == Init /\ [][Next]_vars

(***************************************************************************)
(* The same server when requests are handled one after another: a request  *)
(* is accepted only when no other request is being handled.                *)
(***************************************************************************)
SeqNext ==
  \/ \E t \in Threads, f \in Forms : InFlight = {} /\ ReportValidate(t, f)
  \/ \E t \in Threads, o \in ReportOutcomes : ReportGenerate(t, o)
  \/ \E t \in Threads : ReportCheck(t)
  \/ \E t \in Threads, ok \in BOOLEAN, e \in ErrorMessages : ReportInsert(t, ok, e)
  \/ \E q \in Queries : InFlight = {} /\ Search(q)
  \/ \E m \in Messages, o \in ChatOutcomes : InFlight = {} /\ Chat(m, o)

SeqSpec == Init /\ [][SeqNext]_vars

(***************************************************************************)
(* The response parser on its own: one valid report whose completion text  *)
(* ranges over every concatenation of at most MaxSegs segments, and over   *)
(* the text of the specification's end-to-end example.                     *)
(***************************************************************************)
Segments == {<<"a">>, <<",">>, <<" ">>, <<"\n">>, TagsLabel, DescriptionLabel}

RECURSIVE Flatten(_)
Flatten(segs) == IF segs = <<>> THEN <<>> ELSE segs[1] \o Flatten(Tail(segs))

ExampleText ==
  <<"D","e","s","c","r","i","p","t","i","o","n",":","\n","A"," ","b","l",
    "u","e"," ","b","a","c","k","p","a","c","k"," ","f","o","u","n","d"," ",
    "n","e","a","r"," ","t","h","e"," ","l","i","b","r","a","r","y",".",
    "\n","\n","T","a","g","s",":","\n","b","a","c","k","p","a","c","k",",",
    " ","b","l","u","e",","," ","l","i","b","r","a","r","y",","," ","l","o",
    "s","t",","," ","b","a","g">>

ExampleDescription ==
  <<"A"," ","b","l","u","e"," ","b","a","c","k","p","a","c","k"," ","f","o",
    "u","n","d"," ","n","e","a","r"," ","t","h","e"," ","l","i","b","r","a",
    "r","y",".">>

ExampleTags ==
  <<"b","a","c","k","p","a","c","k",","," ","b","l","u","e",","," ","l","i",
    "b","r","a","r","y",","," ","l","o","s","t",","," ","b","a","g">>

ParserTexts ==
  {Flatten(segs) : segs \in UNION {[1..n -> Segments] : n \in 0..MaxSegs}}
    \cup {ExampleText}

ParserOutcomes == [ok : {TRUE}, text : ParserTexts] \cup Failures

ParserForm == [item_name |-> <<"a">>, keywords |-> <<"k">>, location |-> <<"L">>]

ParserInit ==
  /\ items = <<>>
  /\ pc = [t \in Threads |-> IF t = "t1" THEN "generate" ELSE "idle"]
  /\ form = [t \in Threads |-> IF t = "t1" THEN ParserForm ELSE NoForm]
  /\ svc = [t \in Threads |-> <<>>]
  /\ out = NoResponse

ParserNext ==
  \/ pc["t1"] = "generate" /\ \E o \in ParserOutcomes : ReportGenerate("t1", o)
  \/ ReportCheck("t1")
  \/ \E ok \in BOOLEAN, e \in ErrorMessages : ReportInsert("t1", ok, e)

ParserSpec == ParserInit /\ [][ParserNext]_vars

(***************************************************************************)
(* Vocabulary of the properties.                                           *)
(***************************************************************************)
Blank(s) == \A i \in 1..Len(s) : IsSpace(s[i])

AnyFieldBlank(f) == Blank(f.item_name) \/ Blank(f.keywords) \/ Blank(f.location)

CommaCount(line) == Cardinality({i \in 1..Len(line) : line[i] = ","})

Triple(r) == <<r.item_name, r.location, r.description>>

DuplicateTriples(rows) ==
  \E i, j \in 1..Len(rows) : i # j /\ Triple(rows[i]) = Triple(rows[j])

\* the triple of the report thread t is handling is that of a stored row
TripleStored(t) ==
  \E i \in 1..Len(items) :
    Triple(items[i]) = <<item_name(t), location(t), Parse(ai_text(t)).description>>

IsPrefix(a, b) == Len(a) <= Len(b) /\ \A i \in 1..Len(a) : a[i] = b[i]

\* needle occurs in hay, the case of ASCII letters ignored
ContainsIgnoringCase(hay, needle) ==
  \E k \in 0..(Len(hay) - Len(needle)) :
    \A i \in 1..Len(needle) : Lower(hay[k + i]) = Lower(needle[i])

\* needle is a substring of one of the four text columns of row r
SubstringOfRow(r, needle) ==
  \/ ContainsIgnoringCase(r.item_name, needle)
  \/ ContainsIgnoringCase(r.description, needle)
  \/ ContainsIgnoringCase(r.tags, needle)
  \/ ContainsIgnoringCase(r.location, needle)

Range(f) == {f[i] : i \in DOMAIN f}

\* the lines of a completion text once the two labels are removed
LabelFreeLines(text) == Split(Remove(Remove(text, DescriptionLabel), TagsLabel), "\n")

TagLines(lines) == {i \in 1..Len(lines) : CommaCount(lines[i]) >= 2}

\* the lines other than line k, in order
RECURSIVE Without(_, _)
Without(lines, k) ==
  IF lines = <<>> THEN <<>>
  ELSE IF k = 1 THEN Tail(lines)
       ELSE <<lines[1]>> \o Without(Tail(lines), k - 1)

Trimmed(lines) == [i \in 1..Len(lines) |-> Strip(lines[i])]

\* the last response is the redirect of a report that stored a row
Stored == out.handler = "report" /\ out.body = "redirect /search"

LastRow == items[Len(items)]

(***************************************************************************)
(* C1. A report with item_name, keywords or location empty or              *)
(* whitespace-only is answered "All fields are required." without any      *)
(* call to the completion service and without a change of the table; no    *)
(* such report is ever handled past validation.                            *)
(***************************************************************************)
C1_RejectsBeforeService ==
  [][/\ (out'.handler = "report" /\ AnyFieldBlank(out'.request))
          => /\ out'.body = "All fields are required."
             /\ out'.calls = <<>>
             /\ items' = items
     /\ \A t \in Threads : pc'[t] # "idle" => ~AnyFieldBlank(form'[t])]_vars

C1_Witness ==
  /\ out.handler = "report"
  /\ ~Blank(out.request.item_name) /\ ~Blank(out.request.keywords)
  /\ out.request.location = <<>>
  /\ out.body = "All fields are required."
  /\ items # <<>>

(***************************************************************************)
(* C2. With requests handled one after another, a report whose             *)
(* (item_name, location, description) triple is that of a stored row is    *)
(* answered "Item already exists in database." and adds no row, and no two *)
(* rows of the table ever share a triple.                                  *)
(***************************************************************************)
C2_SequentialNoDuplicates ==
  [][/\ \A t \in Threads :
          (pc[t] = "check" /\ pc'[t] # "check" /\ TripleStored(t))
            => /\ out'.body = "Item already exists in database."
               /\ pc'[t] = "idle"
               /\ items' = items
     /\ ~DuplicateTriples(items')]_vars

C2_Witness ==
  /\ out.handler = "report"
  /\ out.body = "Item already exists in database."
  /\ Len(items) = 1

(***************************************************************************)
(* C7. The insert of a report that passed the duplicate check does not     *)
(* look at the table again: it appends its row (or fails with a database   *)
(* error) even when a row with the same triple has been stored since, so   *)
(* that two interleaved reports of one triple leave two rows sharing it.   *)
(***************************************************************************)
C7_InsertDoesNotRecheck ==
  [][\A t \in Threads :
       (pc[t] = "insert" /\ pc'[t] # "insert")
         => \/ /\ out'.body = "redirect /search"
               /\ Len(items') = Len(items) + 1
               /\ IsPrefix(items, items')
               /\ Triple(items'[Len(items')])
                    = <<item_name(t), location(t), description(t)>>
            \/ /\ out'.body = "Database Error: "
               /\ items' = items]_vars

C7_Witness == DuplicateTriples(items)

(***************************************************************************)
(* C9. Rows are created only by the insert step of a report and are never  *)
(* updated or deleted: every step keeps the stored rows as they are, and a *)
(* step that changes the table is the successful insert of one row.        *)
(***************************************************************************)
C9_RowsOnlyAppended ==
  [][/\ IsPrefix(items, items')
     /\ items' # items
          => /\ Len(items') = Len(items) + 1
             /\ out'.handler = "report" /\ out'.body = "redirect /search"
             /\ \E t \in Threads : pc[t] = "insert" /\ pc'[t] = "idle"]_vars

C9_Witness ==
  /\ Len(items) = 2
  /\ items[1].item_name = items[2].item_name
  /\ out.handler \in {"search", "chat"}
  /\ out.reads = 1

(***************************************************************************)
(* C10. A report whose call to the completion service fails ends with      *)
(* "Groq API Error: <message>": one call was made, no SELECT was run, the  *)
(* table is unchanged, and a report is past the call only after exactly    *)
(* one successful call.                                                    *)
(***************************************************************************)
C10_GenerateFailureIsTerminal ==
  [][/\ \A t \in Threads :
          pc'[t] \in {"check", "insert"} => Len(svc'[t]) = 1 /\ svc'[t][1].ok
     /\ \A t \in Threads : pc'[t] \in {"idle", "generate"} => svc'[t] = <<>>
     /\ (out'.handler = "report" /\ out'.calls # <<>> /\ ~out'.calls[1].ok)
          => /\ out'.body = "Groq API Error: "
             /\ out'.text = out'.calls[1].text
             /\ Len(out'.calls) = 1
             /\ out'.reads = 0
             /\ items' = items]_vars

C10_Witness ==
  /\ out.handler = "report"
  /\ out.body = "Groq API Error: "
  /\ out.calls # <<>> /\ ~out.calls[1].ok
  /\ items # <<>>

C4_FullTextJoined ==
  Stored =>
    LET text == out.calls[1].text
    IN  TagLines(Split(text, "\n")) = {} =>
          /\ LastRow.tags = AIGenerated
          /\ LastRow.description = Strip(Join(Trimmed(Split(text, "\n"))))

(***************************************************************************)
(* C4, amended: when no line of the completion text holds at least 2       *)
(* commas, the stored tags are "AI generated" and the stored description   *)
(* is the text with the labels "Description:" and "Tags:" removed, its     *)
(* lines each trimmed, joined by single spaces and trimmed as a whole.     *)
(***************************************************************************)
C4_FallbackTags ==
  Stored =>
    LET text == out.calls[1].text
    IN  TagLines(Split(text, "\n")) = {} =>
          /\ LastRow.tags = AIGenerated
          /\ LastRow.description = Strip(Join(Trimmed(LabelFreeLines(text))))

\* a stored row made from a text with both labels, two lines and no tag line
C4_Witness ==
  /\ Stored
  /\ LET text == out.calls[1].text
     IN  /\ TagLines(Split(text, "\n")) = {}
         /\ Len(Split(text, "\n")) = 2
         /\ Remove(text, DescriptionLabel) # text
         /\ Remove(text, TagsLabel) # text
         /\ CommaCount(text) = 1
         /\ LastRow.tags = AIGenerated

(***************************************************************************)
(* C8, as stated: the tags of every stored row are a comma-separated list  *)
(* of exactly 5 words or the literal "AI generated".                       *)
(***************************************************************************)
IsWord(s) == s # <<>> /\ \A i \in 1..Len(s) : ~IsSpace(s[i]) /\ s[i] # ","

FiveWords(s) ==
  LET parts == Split(s, ",")
  IN  Len(parts) = 5 /\ \A i \in 1..5 : IsWord(Strip(parts[i]))

C8_TagsFiveWordsOrFallback ==
  \A i \in 1..Len(items) : items[i].tags = AIGenerated \/ FiveWords(items[i].tags)

(***************************************************************************)
(* C8, amended: the tags of every stored row are the literal               *)
(* "AI generated" or one trimmed line of the completion text holding at    *)
(* least 2 commas, that is at least 3 comma-separated fields, which need   *)
(* be neither 5 nor words.                                                 *)
(***************************************************************************)
C8_TagsTagLineOrFallback ==
  /\ \A i \in 1..Len(items) :
       \/ items[i].tags = AIGenerated
       \/ /\ CommaCount(items[i].tags) >= 2
          /\ Strip(items[i].tags) = items[i].tags
          /\ \A j \in 1..Len(items[i].tags) : items[i].tags[j] # "\n"
  /\ (Stored /\ LastRow.tags # AIGenerated) =>
       \E k \in DOMAIN LabelFreeLines(out.calls[1].text) :
         LastRow.tags = Strip(LabelFreeLines(out.calls[1].text)[k])

\* stored tags that are a tag line of three fields, one of them empty
C8_Witness ==
  /\ Stored
  /\ LastRow.tags # AIGenerated
  /\ Len(Split(LastRow.tags, ",")) = 3
  /\ \E i \in 1..3 : Split(LastRow.tags, ",")[i] = <<>>

(***************************************************************************)
(* C6, as stated: a search with a non-empty trimmed query returns exactly  *)
(* the rows of which the query is a case-insensitive substring of          *)
(* item_name, description, tags or location; an empty query returns        *)
(* nothing and reads nothing.                                              *)
(***************************************************************************)
C6_SearchIsSubstringMatch ==
  out.handler = "search" =>
    LET query == Strip(out.request)
    IN  IF query = <<>>
        THEN out.rows = <<>> /\ out.reads = 0
        ELSE Range(out.rows) = {r \in Range(items) : SubstringOfRow(r, query)}

(***************************************************************************)
(* C5, as stated: a chat message (non-empty once trimmed) that is a        *)
(* substring of a column of some stored row is answered with the name and  *)
(* location of every such row and no call to the completion service; one   *)
(* that matches no row is answered by exactly one call, with its text or   *)
(* with "AI Error: <message>".                                             *)
(***************************************************************************)
C5_ChatMatchesOrAsksService ==
  (out.handler = "chat" /\ Strip(out.request) # <<>>) =>
    LET message  == Strip(out.request)
        matching == {r \in Range(items) : SubstringOfRow(r, message)}
    IN  IF matching # {}
        THEN /\ out.calls = <<>>
             /\ \A r \in matching :
                  [item_name |-> r.item_name, location |-> r.location] \in Range(out.rows)
        ELSE /\ Len(out.calls) = 1
             /\ out.calls[1].ok => out.body = "" /\ out.text = out.calls[1].text
             /\ ~out.calls[1].ok =>
                  out.body = "AI Error: " /\ out.text = out.calls[1].text

====
